---- MODULE Spec2Model ----
(***************************************************************************)
(* A model of EloModel (src/python/utils/elo_model.py): the Rating Store,  *)
(* the rating history and the operations initialize_ratings,               *)
(* update_ratings, predict_goals, predict_winner, fit and evaluate.        *)
(*                                                                         *)
(* Python floats are modelled in fixed point:                              *)
(*   - a probability or actual score is an integer number of 1/ProbScale,  *)
(*   - a margin-of-victory multiplier (and mov_multiplier itself) is an    *)
(*     integer number of 1/MovScale,                                       *)
(*   - a rating is an integer number of 1/RatingScale rating points, with  *)
(*     RatingScale = ProbScale * MovScale, so that the rating change       *)
(*     k_factor * mov_mult * (actual - expected) is computed exactly.      *)
(* The class defines predict_goals, predict_winner, fit and evaluate       *)
(* twice; Python keeps the later definition of each (lines 259-342), and   *)
(* those are the ones modelled.                                            *)
(***************************************************************************)
EXTENDS Integers, Sequences, FiniteSets, TLC

VARIABLES
    params,          \* self.params: the hyperparameter dict given to __init__
    ratings,         \* self.ratings: dict team -> rating
    rating_history,  \* self.rating_history: list of history records
    processed,       \* ghost: one entry per completed update_ratings call
    last,            \* ghost: what the latest call read, computed and returned
    calls            \* ghost: number of calls made on the model so far

vars == <<params, ratings, rating_history, processed, last, calls>>

----------------------------------------------------------------------------
(* Fixed-point representation of the floats of the program.                *)

ProbScale == 10000
MovScale == 10
RatingScale == ProbScale * MovScale

\* p rating points as a stored rating
Points(p) == p * RatingScale

\* dict.get(key, default), also Series.get(key, default)
Get(d, key, default) == IF key \in DOMAIN d THEN d[key] ELSE default

\* `key in d`
Has(d, key) == key \in DOMAIN d

\* the empty dict / empty list
EmptyDict == [x \in {} |-> 0]

Abs(x) == IF x < 0 THEN -x ELSE x

RECURSIVE SumOver(_, _)
SumOver(f, S) ==
    IF S = {} THEN 0
    ELSE LET x == CHOOSE y \in S : TRUE IN f[x] + SumOver(f, S \ {x})

\* sum of all stored ratings of a store
StoreSum(store) == SumOver(store, DOMAIN store)

----------------------------------------------------------------------------
(* The pure functions of the class.                                        *)

\* Table of 1 / (1 + 10 ** (x / 400)) in 1/ProbScale, for x = -1000, -975,
\* ..., 1000 rating points (entry i is x = -1000 + 25 * (i - 1)).
LogisticStep == 25
LogisticSpan == 1000
LogisticTable ==
    << 9968, 9964, 9958, 9952, 9944, 9935, 9926, 9914, 9901, 9886, 9868,
       9848, 9825, 9799, 9768, 9733, 9693, 9648, 9595, 9536, 9468, 9390,
       9302, 9203, 9091, 8965, 8823, 8666, 8490, 8296, 8083, 7850, 7597,
       7325, 7034, 6725, 6401, 6063, 5715, 5359, 5000, 4641, 4285, 3937,
       3599, 3275, 2966, 2675, 2403, 2150, 1917, 1704, 1510, 1334, 1177,
       1035, 909, 797, 698, 610, 532, 464, 405, 352, 307, 267, 232, 201,
       175, 152, 132, 114, 99, 86, 74, 65, 56, 48, 42, 36, 32 >>

\* 1 / (1 + 10 ** (x / 400)) for x in 1/RatingScale points: the table,
\* linearly interpolated, and its end values outside the table's span.
Logistic(x) ==
    LET span == Points(LogisticSpan)
        step == Points(LogisticStep)
        y    == IF x < -span THEN 0
                ELSE IF x > span THEN 2 * span
                ELSE x + span
        i    == y \div step
        rem  == y % step
        lo   == LogisticTable[i + 1]
        hi   == IF rem = 0 THEN lo ELSE LogisticTable[i + 2]
    IN  lo + ((hi - lo) * rem) \div step

\* a faulty variant: 1 // (1 + 10 ** ...), which is 0 for every pair
calculate_expected_score_floor_div(team_elo, opponent_elo) == 0

\* calculate_expected_score(team_elo, opponent_elo)
calculate_expected_score(team_elo, opponent_elo) ==
    Logistic(opponent_elo - team_elo)

\* np.log(n) in 1/1000, n = 1 .. 8
LnTable == << 0, 693, 1099, 1386, 1609, 1792, 1946, 2079 >>

\* a faulty variant: the multiplier without its `1 +`
calculate_mov_multiplier_no_base(p, goal_diff) ==
    LET mov == Get(p, "mov_multiplier", 0)
    IN  IF mov = 0 THEN MovScale
        ELSE IF Get(p, "mov_method", "logarithmic") = "linear"
             THEN Abs(goal_diff) * mov
             ELSE (LnTable[Abs(goal_diff) + 1] * mov) \div 1000

\* calculate_mov_multiplier(goal_diff), in 1/MovScale
calculate_mov_multiplier(p, goal_diff) ==
    LET mov == Get(p, "mov_multiplier", 0)
    IN  IF mov = 0 THEN MovScale
        ELSE IF Get(p, "mov_method", "logarithmic") = "linear"
             THEN MovScale + Abs(goal_diff) * mov
             ELSE MovScale + (LnTable[Abs(goal_diff) + 1] * mov) \div 1000

\* get_actual_score(outcome), in 1/ProbScale. The numeric outcome 1 of the
\* source is the code "1" here.
get_actual_score(p, outcome) ==
    IF outcome \in {"RW", "W", "1"} THEN ProbScale
    ELSE IF outcome = "OTW" THEN Get(p, "ot_win_multiplier", 7500)
    ELSE IF outcome = "OTL" THEN ProbScale - Get(p, "ot_win_multiplier", 7500)
    ELSE 0

\* adjust_for_context(team_elo, is_home, rest_time, travel_dist, injuries)
adjust_for_context(p, team_elo, is_home, rest_time, travel_dist, injuries) ==
    LET home   == IF is_home THEN Points(Get(p, "home_advantage", 0)) ELSE 0
        b2b    == IF rest_time <= 1 THEN Points(Get(p, "b2b_penalty", 0)) ELSE 0
        travel == IF ~is_home /\ travel_dist > 0
                  THEN travel_dist * 15 * (RatingScale \div 1000) ELSE 0
    IN  team_elo + home - b2b - travel - Points(injuries * 25)

----------------------------------------------------------------------------
(* The Rating Store and initialize_ratings.                                *)

\* self.ratings[team] = value
Put(store, team, value) ==
    [t \in DOMAIN store \cup {team} |-> IF t = team THEN value ELSE store[t]]

\* the optional argument divisions: None, or a positional list of tiers
NoDivisions == [given |-> FALSE, values |-> <<>>]
Divisions(seq) == [given |-> TRUE, values |-> seq]

\* division_ratings.get(div, initial)
DivisionRating(p, div) ==
    LET initial == Points(Get(p, "initial_rating", 1500))
    IN  IF div = "D1" THEN initial + Points(100)
        ELSE IF div = "D2" THEN initial
        ELSE IF div = "D3" THEN initial - Points(100)
        ELSE initial

\* the loop of initialize_ratings from position i on: team i takes the
\* division at POSITION i of divisions when there is one
RECURSIVE InitializeFrom(_, _, _, _, _)
InitializeFrom(p, store, teams, divisions, i) ==
    IF i > Len(teams) THEN store
    ELSE LET value == IF divisions.given /\ i <= Len(divisions.values)
                      THEN DivisionRating(p, divisions.values[i])
                      ELSE Points(Get(p, "initial_rating", 1500))
         IN  InitializeFrom(p, Put(store, teams[i], value), teams, divisions, i + 1)

\* the store after initialize_ratings(teams, divisions)
InitializeRatings(p, store, teams, divisions) ==
    InitializeFrom(p, store, teams, divisions, 1)

----------------------------------------------------------------------------
(* update_ratings.                                                         *)

\* a faulty variant: goal_diff read only when mov_multiplier is not 0
UpdateRaisesLazily(p, game) ==
    \/ ~Has(game, "home_team")
    \/ ~Has(game, "away_team")
    \/ /\ ~Has(game, "home_outcome")
       /\ ~Has(game, "home_win")
       /\ (~Has(game, "home_goals") \/ ~Has(game, "away_goals"))
    \/ /\ Get(p, "mov_multiplier", 0) # 0
       /\ (~Has(game, "home_goals") \/ ~Has(game, "away_goals"))

\* update_ratings raises KeyError: game['home_team'], game['away_team'],
\* then game['home_goals'] / game['away_goals'] in the goal comparison (only
\* without home_outcome and home_win) and in goal_diff (always)
UpdateRaises(p, game) ==
    \/ ~Has(game, "home_team")
    \/ ~Has(game, "away_team")
    \/ /\ ~Has(game, "home_outcome")
       /\ ~Has(game, "home_win")
       /\ (~Has(game, "home_goals") \/ ~Has(game, "away_goals"))
    \/ ~Has(game, "home_goals")
    \/ ~Has(game, "away_goals")

\* steps 1-4 of update_ratings: the base ratings, the context values, the
\* adjusted ratings, the rest differential and home_expected
UpdateHomeExpected(p, store, game) ==
    LET home_elo      == Get(store, game.home_team, Points(1500))
        away_elo      == Get(store, game.away_team, Points(1500))
        home_rest     == Get(game, "home_rest", 2)
        away_rest     == Get(game, "away_rest", 2)
        away_travel   == Get(game, "away_travel_dist", Get(game, "travel_distance", 0))
        home_injuries == Get(game, "home_injuries", Get(game, "injuries", 0))
        away_injuries == Get(game, "away_injuries", Get(game, "injuries", 0))
        home_adj0     == adjust_for_context(p, home_elo, TRUE, home_rest, 0, home_injuries)
        away_adj      == adjust_for_context(p, away_elo, FALSE, away_rest, away_travel, away_injuries)
        rest_diff     == home_rest - away_rest
        home_adj      == home_adj0 + rest_diff * Points(Get(p, "rest_advantage_per_day", 0))
    IN  calculate_expected_score(home_adj, away_adj)

\* a faulty variant: home_win looked at before home_outcome
HomeActualWinFirst(p, game) ==
    IF Has(game, "home_win")
    THEN (IF game.home_win THEN ProbScale ELSE 0)
    ELSE IF Has(game, "home_outcome")
    THEN get_actual_score(p, game.home_outcome)
    ELSE (IF game.home_goals > game.away_goals THEN ProbScale ELSE 0)

\* home_actual: home_outcome, else home_win, else the goal comparison
HomeActual(p, game) ==
    IF Has(game, "home_outcome")
    THEN get_actual_score(p, game.home_outcome)
    ELSE IF Has(game, "home_win")
    THEN (IF game.home_win THEN ProbScale ELSE 0)
    ELSE (IF game.home_goals > game.away_goals THEN ProbScale ELSE 0)

\* k = k_factor * mov_mult, in 1/MovScale
EffectiveK(p, game) ==
    Get(p, "k_factor", 32)
        * calculate_mov_multiplier(p, game.home_goals - game.away_goals)

\* k * (home_actual - home_expected)
HomeDelta(k, home_actual, home_expected) ==
    k * (home_actual - home_expected)

\* a faulty variant: the away side given the home side's change
AwayDeltaSameSign(k, home_actual, home_expected) ==
    k * (home_actual - home_expected)

\* k * ((1 - home_actual) - (1 - home_expected))
AwayDelta(k, home_actual, home_expected) ==
    k * ((ProbScale - home_actual) - (ProbScale - home_expected))

\* a faulty variant: the record built from the ratings before the writes
HistoryRecordStale(old, new, home_team, away_team) ==
    [home_team   |-> home_team,
     away_team   |-> away_team,
     home_rating |-> Get(old, home_team, Points(1500)),
     away_rating |-> Get(old, away_team, Points(1500))]

\* the history record: it reads self.ratings after both writes
HistoryRecord(old, new, home_team, away_team) ==
    [home_team   |-> home_team,
     away_team   |-> away_team,
     home_rating |-> new[home_team],
     away_rating |-> new[away_team]]

\* One completed update_ratings(game) on `store`: the new store, the history
\* record, and the intermediate values of the call.
Update(p, store, game) ==
    LET home_team     == game.home_team
        away_team     == game.away_team
        home_elo      == Get(store, home_team, Points(1500))
        away_elo      == Get(store, away_team, Points(1500))
        home_expected == UpdateHomeExpected(p, store, game)
        home_actual   == HomeActual(p, game)
        k             == EffectiveK(p, game)
        s1 == Put(store, home_team, home_elo + HomeDelta(k, home_actual, home_expected))
        s2 == Put(s1, away_team, away_elo + AwayDelta(k, home_actual, home_expected))
    IN  [ratings       |-> s2,
         record        |-> HistoryRecord(store, s2, home_team, away_team),
         home_elo      |-> home_elo,
         away_elo      |-> away_elo,
         home_expected |-> home_expected,
         home_actual   |-> home_actual,
         k             |-> k]

\* the ghost entry of a completed update
ProcessedEntry(store, game, u) ==
    [game |-> game, before |-> store, after |-> u.ratings,
     home_expected |-> u.home_expected, home_actual |-> u.home_actual, k |-> u.k]

----------------------------------------------------------------------------
(* predict_goals and predict_winner (the definitions at lines 259-312).    *)

\* a prediction raises KeyError: game['home_team'], game['away_team']
PredictRaises(game) ==
    ~Has(game, "home_team") \/ ~Has(game, "away_team")

\* home_win_prob of predict_goals (lines 262-279)
PredictGoalsProb(p, store, game) ==
    LET home_elo     == Get(store, game.home_team, Points(1500))
        away_elo     == Get(store, game.away_team, Points(1500))
        home_elo_adj == adjust_for_context(p, home_elo, TRUE,
                            Get(game, "home_rest", 2), 0, Get(game, "home_injuries", 0))
        away_elo_adj == adjust_for_context(p, away_elo, FALSE,
                            Get(game, "away_rest", 2), Get(game, "away_travel_dist", 0),
                            Get(game, "away_injuries", 0))
        rest_diff    == Get(game, "home_rest", 2) - Get(game, "away_rest", 2)
    IN  calculate_expected_score(
            home_elo_adj + rest_diff * Points(Get(p, "rest_advantage_per_day", 0)),
            away_elo_adj)

\* home_win_prob of predict_winner (lines 292-307)
PredictWinnerProb(p, store, game) ==
    LET home_elo     == Get(store, game.home_team, Points(1500))
        away_elo     == Get(store, game.away_team, Points(1500))
        home_elo_adj == adjust_for_context(p, home_elo, TRUE,
                            Get(game, "home_rest", 2), 0, Get(game, "home_injuries", 0))
        away_elo_adj == adjust_for_context(p, away_elo, FALSE,
                            Get(game, "away_rest", 2), Get(game, "away_travel_dist", 0),
                            Get(game, "away_injuries", 0))
        rest_diff    == Get(game, "home_rest", 2) - Get(game, "away_rest", 2)
    IN  calculate_expected_score(
            home_elo_adj + rest_diff * Points(Get(p, "rest_advantage_per_day", 0)),
            away_elo_adj)

\* the goals predict_goals returns, in 1/ProbScale goals:
\* expected_diff = (home_win_prob - 0.5) * 12, 3.0 +/- expected_diff / 2
PredictGoals(p, store, game) ==
    LET home_win_prob == PredictGoalsProb(p, store, game)
        half_diff     == (home_win_prob * 2 - ProbScale) * 3
    IN  [home_win_prob |-> home_win_prob,
         home_goals    |-> 3 * ProbScale + half_diff,
         away_goals    |-> 3 * ProbScale - half_diff]

\* the pair predict_winner returns
PredictWinner(p, store, game) ==
    LET home_win_prob == PredictWinnerProb(p, store, game)
    IN  IF home_win_prob * 2 > ProbScale
        THEN [home_win_prob |-> home_win_prob,
              winner |-> game.home_team, prob |-> home_win_prob]
        ELSE [home_win_prob |-> home_win_prob,
              winner |-> game.away_team, prob |-> ProbScale - home_win_prob]

\* a faulty variant: the lookups as setdefault, which inserts unseen teams
RatingsAfterPredictInserting(store, game) ==
    LET s1 == IF Has(store, game.home_team) THEN store
              ELSE Put(store, game.home_team, Points(1500))
    IN  IF Has(s1, game.away_team) THEN s1
        ELSE Put(s1, game.away_team, Points(1500))

\* self.ratings after a prediction on `game`: the lookups are dict.get, which
\* never inserts, and nothing is assigned
RatingsAfterPredict(store, game) == store

----------------------------------------------------------------------------
(* fit and evaluate (the definitions at lines 314-342). A DataFrame is a    *)
(* non-empty sequence of rows with the same columns.                       *)

Columns(frame) == DOMAIN frame[1]

\* the order of the team ids (groupby sorts its keys)
TeamOrder == << "A", "B", "C", "D" >>

RECURSIVE UniqueFrom(_, _, _)
UniqueFrom(seq, i, acc) ==
    IF i > Len(seq) THEN acc
    ELSE IF \E j \in 1..Len(acc) : acc[j] = seq[i]
         THEN UniqueFrom(seq, i + 1, acc)
         ELSE UniqueFrom(seq, i + 1, Append(acc, seq[i]))

\* pd.concat([games_df['home_team'], games_df['away_team']]).unique()
FrameTeams(frame) ==
    UniqueFrom([i \in 1..Len(frame) |-> frame[i].home_team]
                   \o [i \in 1..Len(frame) |-> frame[i].away_team], 1, <<>>)

\* the first division of the rows whose home team is `team`
FirstDivision(frame, team) ==
    LET i == CHOOSE k \in 1..Len(frame) :
                 /\ frame[k].home_team = team
                 /\ \A j \in 1..(k - 1) : frame[j].home_team # team
    IN  frame[i].division

\* games_df.groupby('home_team')['division'].first(): one entry per home
\* team, in the sorted order of the home teams
RECURSIVE GroupFirstFrom(_, _, _)
GroupFirstFrom(frame, r, acc) ==
    IF r > Len(TeamOrder) THEN acc
    ELSE IF \E k \in 1..Len(frame) : frame[k].home_team = TeamOrder[r]
         THEN GroupFirstFrom(frame, r + 1, Append(acc, FirstDivision(frame, TeamOrder[r])))
         ELSE GroupFirstFrom(frame, r + 1, acc)

GroupFirst(frame) == GroupFirstFrom(frame, 1, <<>>)

\* fit raises KeyError before anything is done
FitRaisesEarly(frame) ==
    ~("home_team" \in Columns(frame)) \/ ~("away_team" \in Columns(frame))

\* the store after the initialize_ratings call of fit
FitSeed(p, store, frame) ==
    IF "division" \in Columns(frame)
    THEN InitializeRatings(p, store, FrameTeams(frame), Divisions(GroupFirst(frame)))
    ELSE InitializeRatings(p, store, FrameTeams(frame), NoDivisions)

\* the loop `for _, game in games_df.iterrows(): self.update_ratings(game)`
\* from row i on; it stops at the first row that raises
RECURSIVE FoldFrom(_, _, _, _)
FoldFrom(p, st, frame, i) ==
    IF i > Len(frame) THEN st
    ELSE IF UpdateRaises(p, frame[i]) THEN [st EXCEPT !.raised = TRUE]
    ELSE LET u == Update(p, st.ratings, frame[i])
         IN  FoldFrom(p,
                 [ratings        |-> u.ratings,
                  rating_history |-> Append(st.rating_history, u.record),
                  processed      |-> Append(st.processed,
                                            ProcessedEntry(st.ratings, frame[i], u)),
                  raised         |-> FALSE],
                 frame, i + 1)

\* the loop of evaluate from row i on: predict_goals(game), then
\* game['home_goals']; it stops at the first row that raises
RECURSIVE EvaluateFrom(_, _, _, _)
EvaluateFrom(p, acc, frame, i) ==
    IF i > Len(frame) THEN acc
    ELSE IF PredictRaises(frame[i]) THEN [acc EXCEPT !.raised = TRUE]
    ELSE LET after == RatingsAfterPredict(acc.ratings, frame[i])
         IN  IF ~Has(frame[i], "home_goals")
             THEN [acc EXCEPT !.ratings = after, !.raised = TRUE]
             ELSE EvaluateFrom(p,
                      [ratings     |-> after,
                       predictions |-> Append(acc.predictions,
                                          PredictGoals(p, acc.ratings, frame[i]).home_goals),
                       actuals     |-> Append(acc.actuals, frame[i].home_goals),
                       raised      |-> FALSE],
                      frame, i + 1)

\* sum of |actual - prediction| over the rows, in 1/ProbScale goals
RECURSIVE AbsErrorFrom(_, _, _)
AbsErrorFrom(predictions, actuals, i) ==
    IF i > Len(predictions) THEN 0
    ELSE Abs(actuals[i] * ProbScale - predictions[i])
             + AbsErrorFrom(predictions, actuals, i + 1)

----------------------------------------------------------------------------
(* The calls on the model. Each sets `last` and counts in `calls`.         *)

initialize_ratings(teams, divisions) ==
    /\ ratings' = InitializeRatings(params, ratings, teams, divisions)
    /\ last' = [op |-> "initialize_ratings", raised |-> FALSE,
                teams |-> teams, divisions |-> divisions]
    /\ calls' = calls + 1
    /\ UNCHANGED <<params, rating_history, processed>>

update_ratings(game) ==
    /\ IF UpdateRaises(params, game)
       THEN /\ last' = [op |-> "update_ratings", raised |-> TRUE,
                        game |-> game, store |-> ratings]
            /\ UNCHANGED <<ratings, rating_history, processed>>
       ELSE LET u == Update(params, ratings, game)
            IN  /\ ratings' = u.ratings
                /\ rating_history' = Append(rating_history, u.record)
                /\ processed' = Append(processed, ProcessedEntry(ratings, game, u))
                /\ last' = [op |-> "update_ratings", raised |-> FALSE,
                            game |-> game, store |-> ratings,
                            home_elo |-> u.home_elo, away_elo |-> u.away_elo,
                            home_expected |-> u.home_expected,
                            home_actual |-> u.home_actual, k |-> u.k]
    /\ calls' = calls + 1
    /\ UNCHANGED params

predict_goals(game) ==
    /\ IF PredictRaises(game)
       THEN /\ last' = [op |-> "predict_goals", raised |-> TRUE,
                        game |-> game, store |-> ratings]
            /\ UNCHANGED ratings
       ELSE LET r == PredictGoals(params, ratings, game)
            IN  /\ ratings' = RatingsAfterPredict(ratings, game)
                /\ last' = [op |-> "predict_goals", raised |-> FALSE,
                            game |-> game, store |-> ratings,
                            home_elo |-> Get(ratings, game.home_team, Points(1500)),
                            away_elo |-> Get(ratings, game.away_team, Points(1500)),
                            home_win_prob |-> r.home_win_prob,
                            home_goals |-> r.home_goals, away_goals |-> r.away_goals]
    /\ calls' = calls + 1
    /\ UNCHANGED <<params, rating_history, processed>>

predict_winner(game) ==
    /\ IF PredictRaises(game)
       THEN /\ last' = [op |-> "predict_winner", raised |-> TRUE,
                        game |-> game, store |-> ratings]
            /\ UNCHANGED ratings
       ELSE LET r == PredictWinner(params, ratings, game)
            IN  /\ ratings' = RatingsAfterPredict(ratings, game)
                /\ last' = [op |-> "predict_winner", raised |-> FALSE,
                            game |-> game, store |-> ratings,
                            home_elo |-> Get(ratings, game.home_team, Points(1500)),
                            away_elo |-> Get(ratings, game.away_team, Points(1500)),
                            home_win_prob |-> r.home_win_prob,
                            winner |-> r.winner, prob |-> r.prob]
    /\ calls' = calls + 1
    /\ UNCHANGED <<params, rating_history, processed>>

fit(frame) ==
    /\ IF FitRaisesEarly(frame)
       THEN /\ last' = [op |-> "fit", raised |-> TRUE, seeded |-> FALSE,
                        frame |-> frame]
            /\ UNCHANGED <<ratings, rating_history, processed>>
       ELSE LET seed == FitSeed(params, ratings, frame)
                st   == FoldFrom(params,
                            [ratings |-> seed, rating_history |-> rating_history,
                             processed |-> processed, raised |-> FALSE],
                            frame, 1)
            IN  /\ ratings' = st.ratings
                /\ rating_history' = st.rating_history
                /\ processed' = st.processed
                /\ last' = [op |-> "fit", raised |-> st.raised, seeded |-> TRUE,
                            frame |-> frame, teams |-> FrameTeams(frame),
                            seed |-> seed]
    /\ calls' = calls + 1
    /\ UNCHANGED params

\* The metrics are sklearn's; the model keeps what they are computed from:
\* the predictions, the actuals, the absolute error and whether r2_score is
\* called (len(set(actuals)) > 1) or 0.0 is reported.
evaluate(frame) ==
    /\ LET r == EvaluateFrom(params,
                    [ratings |-> ratings, predictions |-> <<>>,
                     actuals |-> <<>>, raised |-> FALSE],
                    frame, 1)
       IN  /\ ratings' = r.ratings
           /\ last' = IF r.raised
                      THEN [op |-> "evaluate", raised |-> TRUE, frame |-> frame]
                      ELSE [op |-> "evaluate", raised |-> FALSE, frame |-> frame,
                            predictions |-> r.predictions, actuals |-> r.actuals,
                            abs_error |-> AbsErrorFrom(r.predictions, r.actuals, 1),
                            r2_scored |-> Cardinality({r.actuals[i] :
                                              i \in 1..Len(r.actuals)}) > 1]
    /\ calls' = calls + 1
    /\ UNCHANGED <<params, rating_history, processed>>

----------------------------------------------------------------------------
(* Configurations and inputs.                                              *)

\* End-to-end scenario 1: initial_rating 1500, k_factor 32, nothing else
Scenario1 == [initial_rating |-> 1500, k_factor |-> 32]

\* End-to-end scenario 2: mov_multiplier 0.5, linear
Scenario2 == [initial_rating |-> 1500, k_factor |-> 32,
              mov_multiplier |-> 5, mov_method |-> "linear"]

\* a tuned configuration: every documented key except mov_method, so the
\* margin of victory is logarithmic; ot_win_multiplier 0.8, season_carryover
\* 0.75 (in 1/ProbScale; no method reads it)
Tuned == [initial_rating |-> 1400, k_factor |-> 20, home_advantage |-> 100,
          mov_multiplier |-> 5, season_carryover |-> 7500,
          ot_win_multiplier |-> 8000, rest_advantage_per_day |-> 5,
          b2b_penalty |-> 30]

\* a match record with the four mandatory fields; a match is played by two
\* different teams
Match(h, a, hg, ag) ==
    [home_team |-> h, away_team |-> a, home_goals |-> hg, away_goals |-> ag]

\* a record without one of its fields
Without(rec, key) == [f \in DOMAIN rec \ {key} |-> rec[f]]

\* well-formed records without optional fields
ResultGames ==
    { Match(pr[1], pr[2], sc[1], sc[2]) :
        pr \in { <<"A", "B">>, <<"B", "A">>, <<"A", "C">>, <<"C", "B">> },
        sc \in { <<3, 0>>, <<1, 2>> } }

\* well-formed records with optional context fields
ContextGames ==
    { Match("A", "B", 3, 0) @@ c :
        c \in { [home_rest |-> 1],
                [home_rest |-> 3, away_rest |-> 1],
                [away_travel_dist |-> 1000],
                [travel_distance |-> 1000],
                [home_injuries |-> 1],
                [away_injuries |-> 1],
                [injuries |-> 1] } }

\* well-formed records with an outcome code or a win flag
OutcomeGames ==
    { Match("A", "B", 3, 2) @@ [home_outcome |-> "OTW"],
      Match("B", "A", 2, 1) @@ [home_win |-> FALSE] }

\* records that lack a mandatory field
MalformedGames ==
    { Without(Match("A", "B", 3, 0), f) :
        f \in {"home_team", "away_team", "home_goals", "away_goals"} }
    \cup { [home_team |-> "A", away_team |-> "B", home_outcome |-> "RW"],
           Without(Match("B", "C", 1, 2), "away_team")
               @@ [home_rest |-> 1, travel_distance |-> 1000] }

Games == ResultGames \cup ContextGames \cup OutcomeGames \cup MalformedGames

\* the records predictions are asked for
PredictGames ==
    { Match("A", "B", 3, 0), Match("C", "A", 1, 2),
      [home_team |-> "B", away_team |-> "C"],
      Match("A", "B", 3, 0) @@ [travel_distance |-> 1000],
      Match("A", "B", 3, 0) @@ [away_travel_dist |-> 1000],
      Match("A", "B", 3, 0) @@ [home_rest |-> 3, away_rest |-> 1],
      Match("A", "B", 3, 0) @@ [home_injuries |-> 1],
      [away_team |-> "B", home_goals |-> 1] }

\* the arguments of direct initialize_ratings calls
InitArgs ==
    { [teams |-> <<"A", "B">>, divisions |-> NoDivisions],
      [teams |-> <<"A", "B", "C">>, divisions |-> NoDivisions],
      [teams |-> <<"A", "B">>, divisions |-> Divisions(<<"D1", "D3">>)],
      [teams |-> <<"B", "A", "C">>, divisions |-> Divisions(<<"D3">>)],
      [teams |-> <<"C", "A">>, divisions |-> Divisions(<<"D9", "D2">>)] }

\* a match record of a frame with a division column
Tagged(h, a, hg, ag, div) == Match(h, a, hg, ag) @@ [division |-> div]

\* the frames given to fit and evaluate
Frames ==
    { << Match("A", "B", 3, 0), Match("B", "A", 1, 2) >>,
      << Tagged("B", "A", 2, 1, "D1"), Tagged("A", "B", 3, 0, "D3") >>,
      << Tagged("A", "C", 1, 0, "D1"), Tagged("B", "C", 0, 2, "D3") >>,
      << Tagged("C", "A", 1, 2, "D3"), Tagged("A", "B", 3, 0, "D1") >>,
      << Without(Match("A", "B", 3, 0), "home_goals") >>,
      << Without(Match("A", "B", 3, 0), "home_team") >> }

----------------------------------------------------------------------------
(* The model's life: construction, then any calls.                         *)

MaxCalls == 2

InitWith(configs) ==
    /\ params \in configs
    /\ ratings = EmptyDict
    /\ rating_history = <<>>
    /\ processed = <<>>
    /\ last = [op |-> "__init__", raised |-> FALSE]
    /\ calls = 0

Init == InitWith({Scenario1, Tuned})

Next ==
    \/ \E a \in InitArgs : calls < MaxCalls /\ initialize_ratings(a.teams, a.divisions)
    \/ \E g \in Games : calls < MaxCalls /\ update_ratings(g)
    \/ \E g \in PredictGames : calls < MaxCalls /\ predict_goals(g)
    \/ \E g \in PredictGames : calls < MaxCalls /\ predict_winner(g)
    \/ \E f \in Frames : calls < MaxCalls /\ fit(f)
    \/ \E f \in Frames : calls < MaxCalls /\ evaluate(f)

Spec == Init /\ [][Next]_vars

----------------------------------------------------------------------------
(* The claims checked under Spec.                                          *)

\* the teams of a record that has both
Held(store, game) ==
    Has(store, game.home_team) /\ Has(store, game.away_team)

\* the calls that look ratings up for a record
LookupOps == {"update_ratings", "predict_goals", "predict_winner"}

\* C1: in every configuration, the raw rating that update_ratings,
\* predict_goals and predict_winner use for a team that is not in the Rating
\* Store is the configured initial_rating.
C1_UnseenTeamUsesInitialRating ==
    (last.op \in LookupOps /\ ~last.raised) =>
        LET baseline == Points(Get(params, "initial_rating", 1500))
        IN  /\ ~Has(last.store, last.game.home_team) => last.home_elo = baseline
            /\ ~Has(last.store, last.game.away_team) => last.away_elo = baseline

\* C2: the home win probability of predict_winner and of predict_goals is
\* the home_expected that update_ratings computes for the same record on the
\* same store.
C2_PredictionMatchesUpdateExpectation ==
    (last.op \in {"predict_goals", "predict_winner"} /\ ~last.raised) =>
        last.home_win_prob = UpdateHomeExpected(params, last.store, last.game)

\* updates i..j were made one after the other on teams held in the store
HeldChain(i, j) ==
    \A k \in i..j :
        /\ Held(processed[k].before, processed[k].game)
        /\ k < j => processed[k + 1].before = processed[k].after

\* C3: an update on a match between teams held in the Rating Store changes
\* the stored home and away ratings by equal and opposite amounts, and the
\* sum of all stored ratings after a sequence of such updates is the sum
\* before it.
C3_EqualAndOppositeChange ==
    /\ \A i \in 1..Len(processed) :
           LET e == processed[i]
               h == e.game.home_team
               a == e.game.away_team
           IN  Held(e.before, e.game) =>
                   e.after[h] - e.before[h] = -(e.after[a] - e.before[a])
    /\ \A i \in 1..Len(processed) : \A j \in i..Len(processed) :
           HeldChain(i, j) =>
               StoreSum(processed[j].after) = StoreSum(processed[i].before)

\* two updates in a row on held teams, each of which moved the ratings
C3_Witness ==
    /\ Len(processed) >= 2
    /\ HeldChain(1, 2)
    /\ \A i \in 1..2 :
           processed[i].after[processed[i].game.home_team]
               # processed[i].before[processed[i].game.home_team]

\* the ledger against the completed updates
HistoryMatchesProcessed ==
    /\ Len(rating_history) = Len(processed)
    /\ \A i \in 1..Len(rating_history) :
           /\ rating_history[i].home_team = processed[i].game.home_team
           /\ rating_history[i].away_team = processed[i].game.away_team
           /\ rating_history[i].home_rating
                  = processed[i].after[processed[i].game.home_team]
           /\ rating_history[i].away_rating
                  = processed[i].after[processed[i].game.away_team]

\* no record of the ledger is modified or removed by a step
HistoryAppendOnly ==
    /\ Len(rating_history') >= Len(rating_history)
    /\ SubSeq(rating_history', 1, Len(rating_history)) = rating_history

\* C4: after any sequence of calls, rating_history has one record per
\* completed update_ratings call, the i-th naming the teams of the i-th
\* processed match and holding the ratings stored for them right after that
\* update, and no earlier record is ever modified or removed.
C4_HistoryLedger ==
    []HistoryMatchesProcessed /\ [][HistoryAppendOnly]_vars

\* three records, the last appended by a direct update after a fit that
\* moved the first two teams' ratings again
C4_Witness ==
    /\ Len(rating_history) = 3
    /\ last.op = "update_ratings"
    /\ rating_history[1].home_rating # ratings[rating_history[1].home_team]

\* C5: predict_winner, predict_goals and evaluate leave the Rating Store and
\* the rating history as they were: no rating changes, no team is added, no
\* record is appended.
C5_PredictionsReadOnly ==
    [][last'.op \in {"predict_winner", "predict_goals", "evaluate"} =>
           (ratings' = ratings /\ rating_history' = rating_history)]_vars

\* a prediction was made for an unseen home team on a trained store
C5_Witness ==
    /\ last.op = "predict_winner"
    /\ ~last.raised
    /\ ~Has(ratings, last.game.home_team)
    /\ Len(rating_history) > 0

\* the record lacks a mandatory field
LacksMandatory(game) ==
    \E f \in {"home_team", "away_team", "home_goals", "away_goals"} : ~Has(game, f)

\* C6: update_ratings on a record that lacks a mandatory field raises, and
\* leaves the Rating Store and the rating history as they were.
C6_MalformedRecordRejected ==
    [][(last'.op = "update_ratings" /\ LacksMandatory(last'.game)) =>
           (last'.raised /\ ratings' = ratings /\ rating_history' = rating_history)]_vars

\* a record with an outcome code and no goals was rejected on a trained store
C6_Witness ==
    /\ last.op = "update_ratings"
    /\ last.raised
    /\ Has(last.game, "home_outcome")
    /\ ~Has(last.game, "home_goals")
    /\ Len(rating_history) > 0

\* the tier offset of a division, in rating points
TierOffset(div) ==
    IF div = "D1" THEN 100 ELSE IF div = "D3" THEN -100 ELSE 0

\* the seed the claim gives `team` for `frame`: baseline + the tier offset of
\* the division of its first home match, baseline without a home match
OwnDivisionSeed(p, frame, team) ==
    LET homes == {k \in 1..Len(frame) : frame[k].home_team = team}
        first == CHOOSE k \in homes : \A j \in homes : k <= j
    IN  IF homes = {} THEN Points(Get(p, "initial_rating", 1500))
        ELSE Points(Get(p, "initial_rating", 1500) + TierOffset(frame[first].division))

\* C7: when fit runs on a sequence with division tags, each team is seeded
\* at baseline + the tier offset of its own division (that of its first home
\* match), whatever the order of the teams; a team without a division is
\* seeded at baseline.
C7_SeedIsOwnDivision ==
    (last.op = "fit" /\ last.seeded /\ "division" \in Columns(last.frame)) =>
        \A i \in 1..Len(last.teams) :
            last.seed[last.teams[i]]
                = OwnDivisionSeed(params, last.frame, last.teams[i])

----------------------------------------------------------------------------
(* The Outcome Scorer and the end-to-end scenarios: updates on one pair of *)
(* teams over every combination of outcome code, win flag and score.       *)

OutcomeCodes == {"RW", "W", "1", "OTW", "OTL", "XX"}

ScorerGames ==
    { Match("A", "B", sc[1], sc[2]) @@ o @@ w :
        sc \in { <<3, 0>>, <<0, 3>> },
        o \in {EmptyDict} \cup { [home_outcome |-> c] : c \in OutcomeCodes },
        w \in { EmptyDict, [home_win |-> TRUE], [home_win |-> FALSE] } }

ScorerInitArgs ==
    { [teams |-> <<"A", "B">>, divisions |-> NoDivisions] }

MaxScorerCalls == 2

InitScorer == InitWith({Scenario1, Scenario2, Tuned})

NextScorer ==
    \/ \E a \in ScorerInitArgs :
           calls < MaxScorerCalls /\ initialize_ratings(a.teams, a.divisions)
    \/ \E g \in ScorerGames : calls < MaxScorerCalls /\ update_ratings(g)

SpecScorer == InitScorer /\ [][NextScorer]_vars

\* the home actual score the claim gives a record
ClaimedActual(p, game) ==
    LET ot == Get(p, "ot_win_multiplier", 7500)
    IN  IF Has(game, "home_outcome")
        THEN CASE game.home_outcome \in {"RW", "W", "1"} -> ProbScale
               [] game.home_outcome = "OTW" -> ot
               [] game.home_outcome = "OTL" -> ProbScale - ot
               [] OTHER -> 0
        ELSE IF Has(game, "home_win")
        THEN (IF game.home_win THEN ProbScale ELSE 0)
        ELSE (IF game.home_goals > game.away_goals THEN ProbScale ELSE 0)

\* C8: the home actual score of update_ratings is decided by the outcome
\* code alone when the record has one (RW/W/1 -> 1.0, OTW -> ot_win_multiplier,
\* OTL -> 1 - ot_win_multiplier, anything else -> 0.0 without raising),
\* otherwise by the win flag when present, otherwise by home_goals >
\* away_goals; it is always in [0, 1].
C8_ActualScorePrecedence ==
    last.op = "update_ratings" =>
        /\ ~last.raised
        /\ last.home_actual = ClaimedActual(params, last.game)
        /\ last.home_actual >= 0
        /\ last.home_actual <= ProbScale

\* an unknown outcome code decided against a win flag and a 3-0 score
C8_Witness ==
    /\ last.op = "update_ratings"
    /\ Has(last.game, "home_outcome")
    /\ last.game.home_outcome = "XX"
    /\ Has(last.game, "home_win")
    /\ last.game.home_win
    /\ last.game.home_goals > last.game.away_goals
    /\ last.home_actual = 0

\* initial_rating 1500, k_factor 32 and every context adjustment 0
ScenarioConfig(p) ==
    /\ Get(p, "initial_rating", 1500) = 1500
    /\ Get(p, "k_factor", 32) = 32
    /\ Get(p, "home_advantage", 0) = 0
    /\ Get(p, "b2b_penalty", 0) = 0
    /\ Get(p, "rest_advantage_per_day", 0) = 0

\* a 3-0 home win with no context and no outcome fields, between two teams
\* rated 1500
ScenarioUpdate ==
    /\ last.op = "update_ratings"
    /\ ~last.raised
    /\ ScenarioConfig(params)
    /\ DOMAIN last.game = {"home_team", "away_team", "home_goals", "away_goals"}
    /\ last.game.home_goals = 3
    /\ last.game.away_goals = 0
    /\ last.home_elo = Points(1500)
    /\ last.away_elo = Points(1500)

\* C9: in the scenario configuration an update for a 3-0 home win between
\* two teams rated 1500 stores 1516 and 1484 when mov_multiplier is 0, and
\* 1540 and 1460 when mov_multiplier is 0.5 and mov_method is linear; the
\* stored ratings are the raw ratings plus and minus k * (actual - expected).
C9_ScenarioRatings ==
    /\ ScenarioUpdate =>
           /\ last.home_expected * 2 = ProbScale
           /\ Get(params, "mov_multiplier", 0) = 0 =>
                  /\ ratings[last.game.home_team] = Points(1516)
                  /\ ratings[last.game.away_team] = Points(1484)
           /\ ( /\ Get(params, "mov_multiplier", 0) = 5
                /\ Get(params, "mov_method", "logarithmic") = "linear" ) =>
                  /\ last.k = 80 * MovScale
                  /\ ratings[last.game.home_team] = Points(1540)
                  /\ ratings[last.game.away_team] = Points(1460)
    /\ (last.op = "update_ratings" /\ ~last.raised) =>
           LET change == last.k * (last.home_actual - last.home_expected)
           IN  /\ ratings[last.game.home_team]
                      = Get(last.store, last.game.home_team, Points(1500)) + change
               /\ ratings[last.game.away_team]
                      = Get(last.store, last.game.away_team, Points(1500)) - change

\* scenario 2 after an explicit initialization
C9_Witness ==
    /\ ScenarioUpdate
    /\ Get(params, "mov_multiplier", 0) = 5
    /\ Has(last.store, last.game.home_team)
    /\ ratings[last.game.home_team] = Points(1540)

----------------------------------------------------------------------------
(* Order sensitivity: sequences of updates over four teams.                *)

OrderGames ==
    { Match(pr[1], pr[2], sc[1], sc[2]) :
        pr \in { <<"A", "B">>, <<"B", "A">>, <<"A", "C">>, <<"B", "C">>, <<"C", "D">> },
        sc \in { <<3, 0>>, <<1, 2>> } }
    \cup { Match("A", "B", 3, 2) @@ [home_outcome |-> "OTW"],
           Match("A", "B", 2, 0),
           Match("C", "A", 2, 1) @@ [travel_distance |-> 1000, home_rest |-> 1] }

OrderInitArgs ==
    { [teams |-> <<"A", "B", "C", "D">>, divisions |-> Divisions(<<"D1", "D2", "D3", "D2">>)] }

MaxOrderCalls == 3

InitOrder == InitWith({Scenario1, Scenario2, Tuned})

NextOrder ==
    \/ \E a \in OrderInitArgs :
           calls < MaxOrderCalls /\ initialize_ratings(a.teams, a.divisions)
    \/ \E g \in OrderGames : calls < MaxOrderCalls /\ update_ratings(g)

SpecOrder == InitOrder /\ [][NextOrder]_vars

TeamsOf(game) == {game.home_team, game.away_team}

\* what the context fields add to home_adj - away_adj
ContextEdge(p, game) ==
    adjust_for_context(p, 0, TRUE, Get(game, "home_rest", 2), 0,
                       Get(game, "home_injuries", Get(game, "injuries", 0)))
      + (Get(game, "home_rest", 2) - Get(game, "away_rest", 2))
            * Points(Get(p, "rest_advantage_per_day", 0))
      - adjust_for_context(p, 0, FALSE, Get(game, "away_rest", 2),
                           Get(game, "away_travel_dist", Get(game, "travel_distance", 0)),
                           Get(game, "away_injuries", Get(game, "injuries", 0)))

\* a match as `team` sees it: its opponent, its edge and its score
TeamView(p, game, team) ==
    IF team = game.home_team
    THEN [opponent |-> game.away_team, edge |-> ContextEdge(p, game),
          score |-> HomeActual(p, game)]
    ELSE [opponent |-> game.home_team, edge |-> -ContextEdge(p, game),
          score |-> ProbScale - HomeActual(p, game)]

\* Fully symmetric matches: no common team, or the same two teams with the
\* same edge and the same score. Two matches of the second kind move the same
\* two ratings along the same direction, by k1 * f and k2 * f of the rating
\* difference: exchanging them exchanges nothing when k1 = k2, and changes
\* the result only in the second order of the logistic curve when k1 # k2,
\* which is below the resolution of LogisticTable.
FullySymmetric(p, g1, g2) ==
    \/ TeamsOf(g1) \cap TeamsOf(g2) = {}
    \/ /\ TeamsOf(g1) = TeamsOf(g2)
       /\ TeamView(p, g1, g1.home_team) = TeamView(p, g2, g1.home_team)

\* the store after folding g2 and then g1 into `store`
FoldReversed(p, store, g1, g2) ==
    Update(p, Update(p, store, g2).ratings, g1).ratings

\* updates i and i + 1 were folded one after the other
Consecutive(i) == processed[i + 1].before = processed[i].after

\* C10: folding the same two matches in reversed order from the same store
\* gives different final ratings, unless the two matches are fully
\* symmetric; two matches between disjoint pairs of teams give the same
\* final ratings in either order.
C10_OrderSensitive ==
    \A i \in 1..(Len(processed) - 1) :
        Consecutive(i) =>
            LET g1       == processed[i].game
                g2       == processed[i + 1].game
                reversed == FoldReversed(params, processed[i].before, g1, g2)
            IN  /\ ~FullySymmetric(params, g1, g2) =>
                       reversed # processed[i + 1].after
                /\ TeamsOf(g1) \cap TeamsOf(g2) = {} =>
                       reversed = processed[i + 1].after

\* three updates in a row: the first two share a team and are not
\* symmetric, the last two are between disjoint pairs
C10_Witness ==
    /\ Len(processed) = 3
    /\ Consecutive(1)
    /\ Consecutive(2)
    /\ ~FullySymmetric(params, processed[1].game, processed[2].game)
    /\ TeamsOf(processed[2].game) \cap TeamsOf(processed[3].game) = {}

====
